---- MODULE Spec2Model ----
(***************************************************************************)
(* State-machine model of the sysbench logger, src/src/sb_logger.c:        *)
(* the per-type handler chains, the logger life cycle (log_register,       *)
(* log_init, log_done, log_add_handler), the message dispatcher (log_msg), *)
(* the text front ends (log_text, log_timestamp) and the two built-in      *)
(* handlers (text handler, operation/latency handler).                     *)
(*                                                                         *)
(* The life-cycle calls are single threaded (comment at lines 286-289), so *)
(* every call is one atomic action that contains all the calls it makes.   *)
(* The globals a call may change travel through the call tree in a record  *)
(* ("context"); the action assigns the variables from the final context.   *)
(***************************************************************************)
EXTENDS Integers, Sequences, FiniteSets, TLC

(***************************************************************************)
(* Program constants                                                       *)
(***************************************************************************)
TEXT_BUFFER_SIZE == 4096

\* log_msg_type_t: MIN and MAX are sentinels, TEXT and OPER index handlers[]
LOG_MSG_TYPE_MIN == 0
LOG_MSG_TYPE_TEXT == 1
LOG_MSG_TYPE_OPER == 2
LOG_MSG_TYPE_MAX == 3

\* log_msg_priority_t: 0 is the most severe, 5 ("5 - debug") the least
LOG_FATAL == 0
LOG_ALERT == 1
LOG_WARNING == 2
LOG_DEBUG == 5

\* SB_OPT("verbosity", ..., "3", INT): the default verbosity
DefaultVerbosity == 3

\* the unsigned int repeat counter has 32 bits: its largest value is
\* UINT_HALF * UINT_HALF - 1, a number written here by its two 16-bit halves
UINT_HALF == 65536

(***************************************************************************)
(* Bounds of the model                                                     *)
(***************************************************************************)
\* configured verbosity values tried by log_init: 0 .. LOG_DEBUG + MaxVerbOver
MaxVerbOver == 1
\* longest rendering tried by the text path: the empty rendering and, for
\* each fill character, 1 .. MaxShort characters
MaxShort == 1
\* the repeat counter is followed up to this value
MaxRepeat == 2
\* longest configured percentile list
MaxPct == 2
\* renderings of up to this many characters more than a buffer holds are tried
MaxOver == 1
\* worker threads that dispatch messages concurrently
NThreads == 2

Priorities == LOG_FATAL .. LOG_DEBUG
VerbosityOpts == 0 .. (LOG_DEBUG + MaxVerbOver)
Fills == {"a", "b"}
\* renderings as <<fill, length>>; the empty rendering has no fill to tell apart
ShortTexts == {<<"a", 0>>} \cup (Fills \X (1 .. MaxShort))
\* timer values (whole seconds) tried by log_timestamp
Seconds == {0}

Min(a, b) == IF a < b THEN a ELSE b

(***************************************************************************)
(* Strings.  A C string is a record: ts is the timer value of a            *)
(* "[ <ts>s ] " prefix (-1: no prefix), body names the characters that     *)
(* follow, arg is the number rendered into a literal message, n is how     *)
(* many body characters are stored and nl says whether "\n" ends it.  A    *)
(* caller's template renders to n copies of one fill character, so two     *)
(* renderings are equal as strings iff they agree on fill and length, and  *)
(* a rendering cut at the buffer size equals every other rendering of the  *)
(* same fill that was cut there.                                           *)
(***************************************************************************)
NoTs == -1

Str(ts, body, arg, n, nl) ==
  [ts |-> ts, body |-> IF n = 0 THEN "" ELSE body, arg |-> IF n = 0 THEN 0 ELSE arg,
   n |-> n, nl |-> nl]

\* text_buf[0] = '\0'
EmptyStr == Str(NoTs, "", 0, 0, FALSE)

RECURSIVE Digits(_)
Digits(k) == IF k < 10 THEN 1 ELSE 1 + Digits(k \div 10)

\* characters of "[ %.0fs ] "
TsLen(ts) == IF ts = NoTs THEN 0 ELSE 6 + Digits(ts)

StrLen(s) == TsLen(s.ts) + s.n + (IF s.nl THEN 1 ELSE 0)

\* vsnprintf(buf + clen, maxlen, ...): characters stored when the rendering
\* has n characters and maxlen bytes are left (one is kept for the NUL)
StoredChars(n, maxlen) == IF maxlen <= 0 THEN 0 ELSE Min(n, maxlen - 1)

\* snprintf(buf + clen, maxlen, "\n") stores the newline iff it fits with the NUL
NewlineFits(maxlen) == maxlen >= 2

\* the length without "if (n < 0 || n >= maxlen) n = maxlen"
ClampLen_NoClamp(n, maxlen) == n

\* the length log_text and log_timestamp go on with: n, or maxlen when the rendering
\* filled or overflowed what was left
ClampLen(n, maxlen) == IF n < 0 \/ n >= maxlen THEN maxlen ELSE n

\* log_text, lines 274-284: the string left in buf
FormatText(body, arg, n) ==
  LET maxlen0 == TEXT_BUFFER_SIZE
      stored == StoredChars(n, maxlen0)
      n1 == ClampLen(n, maxlen0)
      maxlen1 == maxlen0 - n1
  IN  Str(NoTs, body, arg, stored, NewlineFits(maxlen1))

\* log_timestamp, lines 322-336: the string left in buf
FormatTimestamp(seconds, body, n) ==
  LET maxlen0 == TEXT_BUFFER_SIZE - TsLen(seconds)
      stored == StoredChars(n, maxlen0)
      n1 == ClampLen(n, maxlen0)
      maxlen1 == maxlen0 - n1
  IN  [ts |-> seconds, body |-> IF stored = 0 THEN "" ELSE body, arg |-> 0,
       n |-> stored, nl |-> NewlineFits(maxlen1)]

\* a write into the local buf[TEXT_BUFFER_SIZE]: the offset it starts at and the
\* size it is given (the size is passed as a size_t: a negative number here is
\* a size that wrapped around to a huge one)
BufWrite(off, size) == [off |-> off, size |-> size]

\* log_text, lines 278 and 284: vsnprintf at buf + 0, snprintf at buf + clen
TextWrites(n) ==
  LET maxlen0 == TEXT_BUFFER_SIZE
      n1 == ClampLen(n, maxlen0)
  IN  <<BufWrite(0, maxlen0), BufWrite(n1, maxlen0 - n1)>>

\* log_timestamp, lines 325, 330 and 336
TimestampWrites(seconds, n) ==
  LET maxlen0 == TEXT_BUFFER_SIZE - TsLen(seconds)
      n1 == ClampLen(n, maxlen0)
  IN  <<BufWrite(0, TEXT_BUFFER_SIZE), BufWrite(TsLen(seconds), maxlen0),
        BufWrite(TsLen(seconds) + n1, maxlen0 - n1)>>

\* strncpy(text_buf, text, TEXT_BUFFER_SIZE): the string text_buf then holds
Strncpy(s, size) ==
  IF StrLen(s) < size THEN s
  ELSE [s EXCEPT !.n = Min(s.n, size - TsLen(s.ts)), !.nl = FALSE]

\* a comparison of the characters only, not of where the strings end
StrEq_BodyOnly(a, b) == a.ts = b.ts /\ a.body = b.body

\* !strcmp(a, b)
StrEq(a, b) == a = b

\* get_msg_prefix
get_msg_prefix(priority) ==
  CASE priority = LOG_FATAL -> "FATAL: "
    [] priority = LOG_ALERT -> "ALERT: "
    [] priority = LOG_WARNING -> "WARNING: "
    [] priority = LOG_DEBUG -> "DEBUG: "
    [] OTHER -> ""

(***************************************************************************)
(* Console lines                                                           *)
(***************************************************************************)
\* printf("%s%s", prefix, text)
MsgLine(prefix, text) == [kind |-> "msg", prefix |-> prefix, text |-> text, num |-> 0]
\* printf("(last message repeated %u times)\n", cnt)
RepeatLine(cnt) == [kind |-> "repeat", prefix |-> "", text |-> EmptyStr, num |-> cnt]
\* printf("Invalid value for verbosity: %d\n", v)
VerbosityLine(v) == [kind |-> "verbosity", prefix |-> "", text |-> EmptyStr, num |-> v]

(***************************************************************************)
(* Handlers.  "text" and "oper" are the built-in handlers (lines 83-113);  *)
(* "ext1" and "ext2" stand for handlers other modules pass to              *)
(* log_add_handler: ext1 has all three operations and no options, ext2 has *)
(* only process, and an option set.  What their operations return is an    *)
(* input of every call that reaches them.                                  *)
(***************************************************************************)
BuiltinHandlers == {"text", "oper"}
ExtHandlers == {"ext1", "ext2"}
HandlerIds == BuiltinHandlers \cup ExtHandlers

\* handler->ops.init != NULL
HasInit(h) == h \in {"text", "oper", "ext1"}
\* handler->ops.process != NULL
HasProcess(h) == h \in {"text", "ext1", "ext2"}
\* handler->ops.done != NULL
HasDone(h) == h \in {"oper", "ext1"}
\* handler->args != NULL
HasArgs(h) == h \in {"text", "oper", "ext2"}

\* what an operation of ext1 or ext2 returns: 0 or an error code
Results == 0 .. 1

\* valid indices of handlers[LOG_MSG_TYPE_MAX]
ChainIds == 0 .. (LOG_MSG_TYPE_MAX - 1)

\* SB_LIST_INIT on every chain
EmptyChains == [i \in ChainIds |-> << >>]

\* the order SB_LIST_FOR_EACH visits the handlers in, chain 0 first
RECURSIVE AllHandlersFrom(_, _)
AllHandlersFrom(H, i) ==
  IF i >= LOG_MSG_TYPE_MAX THEN << >> ELSE H[i] \o AllHandlersFrom(H, i + 1)

AllHandlers(H) == AllHandlersFrom(H, 0)

Registered(H) == {AllHandlers(H)[k] : k \in 1 .. Len(AllHandlers(H))}

\* a call of a handler operation or of the external histogram, with its result
Call(h, op, r) == [h |-> h, op |-> op, r |-> r]

(***************************************************************************)
(* Doubles and atof.  A double is a record: nan, or the integer v.         *)
(***************************************************************************)
Num(v) == [nan |-> FALSE, v |-> v]
NaN == [nan |-> TRUE, v |-> 0]

\* res < k and res > k on doubles: every comparison with a NaN is false
DLess(d, k) == ~d.nan /\ d.v < k
DGreater(d, k) == ~d.nan /\ d.v > k

\* the option strings tried for --percentile
PctTokens == {"-1", "0", "95", "100", "101", "nan"}

\* atof(val->data): the number the text starts with ("nan" is one of the
\* texts strtod reads as a number: not-a-number), 0 when it starts with none
atof(tok) ==
  CASE tok = "-1" -> Num(-1)
    [] tok = "0" -> Num(0)
    [] tok = "95" -> Num(95)
    [] tok = "100" -> Num(100)
    [] tok = "101" -> Num(101)
    [] tok = "nan" -> NaN
    [] OTHER -> Num(0)

\* characters "%f" renders a double into
FLen(d) ==
  IF d.nan THEN 3
  ELSE IF d.v < 0 THEN 1 + Digits(-d.v) + 7 ELSE Digits(d.v) + 7

\* the lists tried: up to MaxPct entries, every entry "95" but one, which is
\* every token at every position
PctListsOfLen(k) ==
  {[i \in 1 .. k |-> IF i = j THEN t ELSE "95"] : j \in 1 .. k, t \in PctTokens}

PctLists == {<< >>} \cup UNION {PctListsOfLen(k) : k \in 1 .. MaxPct}

(***************************************************************************)
(* State                                                                   *)
(***************************************************************************)
VARIABLES
  handlers,      \* handlers[]: per message type, the chain of handlers, in order
  arg_sets,      \* handlers whose options went to sb_register_arg_set
  reg_order,     \* handlers in the order log_add_handler linked them in, since
                 \* log_register last emptied the chains
  initialized,   \* the flag log_init sets and log_done clears
  verbosity,     \* sb_globals.verbosity
  text_buf,      \* text handler: last text stored for the duplicate check
  text_cnt,      \* text handler: repeats of text_buf that were suppressed
  percentiles,   \* sb_globals.percentiles
  npercentiles,  \* sb_globals.npercentiles
  histogram,     \* sb_globals.histogram
  last,          \* the call that led to this state: its name and inputs
  out,           \* console lines that call wrote, in order
  calls,         \* handler operations and histogram calls it made, in order
  nlock,         \* times it locked text_mutex
  writes,        \* writes it made into its local buf, in order
  ret,           \* what it returned (0 for a void function)
  seen,          \* history of the console since the text handler's last init:
                 \* the text of the duplicate-checked message written last, and
                 \* how many duplicate-checked messages the verbosity admitted
                 \* after it that wrote nothing
  top,           \* the line written to the console last, by any call
  unprinted,     \* duplicate-checked messages the verbosity admitted since the
                 \* text handler's last init, less the message lines the dedup
                 \* path wrote and less the sum of the counts in the repeat
                 \* notices written
  pc,            \* per worker thread: the statement of text_handler_process it
                 \* is at, "idle" outside a dispatch
  tmsg,          \* per worker thread: the message it is dispatching
  text_mutex,    \* the thread that holds text_mutex, 0 when it is free
  owner,         \* the thread that stored text_buf and has not written its line
                 \* yet, 0 when that line is written
  tnote          \* the thread that wrote a repeat notice after which no message
                 \* line was written yet, 0 when there is none

vars == <<handlers, arg_sets, reg_order, initialized, verbosity, text_buf, text_cnt,
          percentiles, npercentiles, histogram, last, out, calls, nlock, writes, ret,
          seen, top, unprinted, pc, tmsg, text_mutex, owner, tnote>>

\* the globals a call tree reads and writes, and what it has done so far
Ctx ==
  [verbosity |-> verbosity, buf |-> text_buf, cnt |-> text_cnt,
   pct |-> percentiles, npct |-> npercentiles, histogram |-> histogram,
   out |-> << >>, calls |-> << >>, nlock |-> 0, writes |-> << >>]

(***************************************************************************)
(* The text handler                                                        *)
(***************************************************************************)
\* a TEXT message: log_msg_text_t
TextMsg(priority, text, allow_dup) ==
  [type |-> LOG_MSG_TYPE_TEXT, priority |-> priority, text |-> text,
   allow_dup |-> allow_dup]

\* an OPER message; the text fields are not read
OperMsg == [type |-> LOG_MSG_TYPE_OPER, priority |-> 0, text |-> EmptyStr,
            allow_dup |-> FALSE]

\* the filter with >= for >: a message at the threshold is dropped too
Filtered_AtThreshold(priority, v) == priority >= v

\* text_msg->priority > sb_globals.verbosity: the message is dropped
Filtered(priority, v) == priority > v

\* text_cnt++ on an unsigned int: the largest value wraps to 0
IncCnt(cnt) ==
  IF cnt \div UINT_HALF = UINT_HALF - 1 /\ cnt % UINT_HALF = UINT_HALF - 1
  THEN 0 ELSE cnt + 1

\* the duplicate check without "text_cnt = 0": the count of an earlier run
\* of repeats is carried into the next
DedupCheck_NoReset(c, msg) ==
  IF StrEq(c.buf, msg.text)
  THEN [suppress |-> TRUE,
        ctx |-> [c EXCEPT !.cnt = IncCnt(c.cnt), !.nlock = @ + 1]]
  ELSE [suppress |-> FALSE,
        ctx |-> [c EXCEPT
                   !.out = IF c.cnt > 0 THEN Append(@, RepeatLine(c.cnt)) ELSE @,
                   !.buf = Strncpy(msg.text, TEXT_BUFFER_SIZE),
                   !.nlock = @ + 1]]

\* lines 436-452: the duplicate check, under text_mutex
DedupCheck(c, msg) ==
  IF StrEq(c.buf, msg.text)
  THEN [suppress |-> TRUE,
        ctx |-> [c EXCEPT !.cnt = IncCnt(c.cnt), !.nlock = @ + 1]]
  ELSE [suppress |-> FALSE,
        ctx |-> [c EXCEPT
                   !.out = IF c.cnt > 0 THEN Append(@, RepeatLine(c.cnt)) ELSE @,
                   !.cnt = 0,
                   !.buf = Strncpy(msg.text, TEXT_BUFFER_SIZE),
                   !.nlock = @ + 1]]

\* line 455: printf("%s%s", get_msg_prefix(priority), text)
PrintMsg(c, priority, text) ==
  [c EXCEPT !.out = Append(@, MsgLine(get_msg_prefix(priority), text))]

\* text_handler_process: the context it leaves (it always returns 0)
text_handler_process(c, msg) ==
  IF Filtered(msg.priority, c.verbosity) THEN c
  ELSE IF ~msg.allow_dup
       THEN LET d == DedupCheck(c, msg)
            IN  IF d.suppress THEN d.ctx
                ELSE PrintMsg(d.ctx, msg.priority, msg.text)
       ELSE PrintMsg(c, msg.priority, msg.text)

\* the init without lines 417-418: the dedup state is left as it was
text_handler_init_NoReset(c, optV) ==
  LET c1 == [c EXCEPT !.verbosity = optV]
  IN  IF optV > LOG_DEBUG
      THEN [ctx |-> [c1 EXCEPT !.out = Append(@, VerbosityLine(optV))], r |-> 1]
      ELSE [ctx |-> c1, r |-> 0]

\* text_handler_init with the configured verbosity optV: context and result
text_handler_init(c, optV) ==
  LET c1 == [c EXCEPT !.verbosity = optV]
  IN  IF optV > LOG_DEBUG
      THEN [ctx |-> [c1 EXCEPT !.out = Append(@, VerbosityLine(optV))], r |-> 1]
      ELSE [ctx |-> [c1 EXCEPT !.cnt = 0, !.buf = EmptyStr], r |-> 0]

(***************************************************************************)
(* The dispatcher and the text front ends                                  *)
(***************************************************************************)
\* lines 232-234: one handler of the chain
ProcessOne(c, h, msg, pr) ==
  IF ~HasProcess(h) THEN c
  ELSE IF h = "text"
       THEN LET c1 == text_handler_process(c, msg)
            IN  [c1 EXCEPT !.calls = Append(c.calls, Call(h, "process", 0))]
       ELSE [c EXCEPT !.calls = Append(@, Call(h, "process", pr))]

\* a dispatcher that stops at the first handler whose process returns an error
RECURSIVE WalkChain_StopOnError(_, _, _, _, _)
WalkChain_StopOnError(c, chain, k, msg, pr) ==
  IF k > Len(chain) THEN c
  ELSE LET c1 == ProcessOne(c, chain[k], msg, pr)
           failed == /\ Len(c1.calls) > Len(c.calls)
                     /\ c1.calls[Len(c1.calls)].r # 0
       IN  IF failed THEN c1
           ELSE WalkChain_StopOnError(c1, chain, k + 1, msg, pr)

\* lines 230-235: every handler of the chain, in order
RECURSIVE WalkChain(_, _, _, _, _)
WalkChain(c, chain, k, msg, pr) ==
  IF k > Len(chain) THEN c
  ELSE WalkChain(ProcessOne(c, chain[k], msg, pr), chain, k + 1, msg, pr)

\* log_msg
log_msg(c, H, msg, pr) == WalkChain(c, H[msg.type], 1, msg, pr)

\* the front end without the "if (!initialized)" branch: always dispatch
Emit_AlwaysDispatch(c, H, inited, msg, pr) == log_msg(c, H, msg, pr)

\* lines 290-303 and 342-356: console when not initialized, else dispatch
Emit(c, H, inited, msg, pr) ==
  IF inited = 0
  THEN [c EXCEPT !.out = Append(@, MsgLine(get_msg_prefix(msg.priority), msg.text))]
  ELSE log_msg(c, H, msg, pr)

\* lines 297-301: the message log_text builds, flags = 0
TextMessage(priority, body, arg, n) ==
  TextMsg(priority, FormatText(body, arg, n), FALSE)

\* log_timestamp's message with flags = 0, as log_text sets them
TimestampMessage_NoFlag(priority, seconds, body, n) ==
  TextMsg(priority, FormatTimestamp(seconds, body, n), FALSE)

\* lines 349-354: the message log_timestamp builds, flags = ALLOW_DUPLICATES
TimestampMessage(priority, seconds, body, n) ==
  TextMsg(priority, FormatTimestamp(seconds, body, n), TRUE)

\* a log_text that writes and dispatches nothing
log_text_Silent(c, H, inited, priority, body, arg, n, pr) == c

\* log_text(priority, fmt, ...) whose template renders to n characters
log_text(c, H, inited, priority, body, arg, n, pr) ==
  Emit([c EXCEPT !.writes = @ \o TextWrites(n)], H, inited,
       TextMessage(priority, body, arg, n), pr)

\* log_timestamp(priority, seconds, fmt, ...)
log_timestamp(c, H, inited, priority, seconds, body, n, pr) ==
  Emit([c EXCEPT !.writes = @ \o TimestampWrites(seconds, n)], H, inited,
       TimestampMessage(priority, seconds, body, n), pr)

\* characters of " errno = %d (%s)" for errno 2, "No such file or directory"
ErrnoSuffixLen == 38

\* log_errno, lines 386-390: vsnprintf at buf + 0 and, unless the call returned
\* before it, snprintf of the suffix at buf + n with size TEXT_BUFFER_SIZE - n
ErrnoWrites(n) ==
  <<BufWrite(0, TEXT_BUFFER_SIZE)>>
    \o (IF n < 0 \/ n = TEXT_BUFFER_SIZE THEN << >>
        ELSE <<BufWrite(n, TEXT_BUFFER_SIZE - n)>>)

\* log_errno(priority, fmt, ...) whose template renders to n characters (n < 0:
\* a rendering error).  The text handed to log_text has m characters: the
\* characters of the rendering that buf holds, then arg characters of the
\* suffix.  A rendering longer than the buffer passes the guard of line 388 and
\* the suffix is written outside buf, with a size that wrapped around: what
\* follows is undefined, and ub chooses between the call ending there
\* ("abort") and the call going on with buf as vsnprintf left it ("go_on").
log_errno(c, H, inited, priority, body, n, ub, pr) ==
  LET c1 == [c EXCEPT !.writes = @ \o ErrnoWrites(n)]
  IN  IF n < 0 \/ n = TEXT_BUFFER_SIZE
      THEN [ctx |-> c1, sent |-> FALSE, m |-> 0, arg |-> 0]
      ELSE IF n > TEXT_BUFFER_SIZE
      THEN IF ub = "abort"
           THEN [ctx |-> c1, sent |-> FALSE, m |-> 0, arg |-> 0]
           ELSE [ctx |-> log_text(c1, H, inited, priority, body, 0,
                                  TEXT_BUFFER_SIZE - 1, pr),
                 sent |-> TRUE, m |-> TEXT_BUFFER_SIZE - 1, arg |-> 0]
      ELSE LET m == Min(n + ErrnoSuffixLen, TEXT_BUFFER_SIZE - 1)
           IN  [ctx |-> log_text(c1, H, inited, priority, body, m - n, m, pr),
                sent |-> TRUE, m |-> m, arg |-> m - n]

(***************************************************************************)
(* The operation/latency handler                                           *)
(***************************************************************************)
\* res < 0 || res > 100
BadPercentile(d) == DLess(d, 0) \/ DGreater(d, 100)

\* first loop, lines 472-483: position of the first rejected entry, 0 if none
RECURSIVE FirstBad(_, _)
FirstBad(toks, k) ==
  IF k > Len(toks) THEN 0
  ELSE IF BadPercentile(atof(toks[k])) THEN k
  ELSE FirstBad(toks, k + 1)

\* second loop, lines 488-492
StorePercentiles(toks) == [i \in 1 .. Len(toks) |-> atof(toks[i])]

InvalidPctFmt == "Invalid value for --percentile: %f"
InvalidPctLen(d) == 32 + FLen(d)
HistogramFmt == "--histogram cannot be used with --percentile=NULL"
HistogramFmtLen == 49

\* npercentiles == 0 && histogram != 0
HistogramWithoutPercentiles(npct, hflag) == npct = 0 /\ hflag # 0

\* oper_handler_init with the configured list optP, the configured flag optH
\* and the result histRes of sb_histogram_init
oper_handler_init(c, H, inited, optP, optH, histRes, pr) ==
  LET bad == FirstBad(optP, 1)
  IN  IF bad # 0
      THEN LET res == atof(optP[bad])
           IN  [ctx |-> log_text(c, H, inited, LOG_FATAL, InvalidPctFmt, res.v,
                                 InvalidPctLen(res), pr),
                r |-> 1]
      ELSE LET c1 == [c EXCEPT !.pct = StorePercentiles(optP),
                               !.npct = Len(optP),
                               !.histogram = optH]
           IN  IF HistogramWithoutPercentiles(c1.npct, c1.histogram)
               THEN [ctx |-> log_text(c1, H, inited, LOG_FATAL, HistogramFmt, 0,
                                      HistogramFmtLen, pr),
                     r |-> 1]
               ELSE [ctx |-> [c1 EXCEPT !.calls =
                                Append(@, Call("oper", "sb_histogram_init", histRes))],
                     r |-> IF histRes # 0 THEN 1 ELSE 0]

\* oper_handler_done
oper_handler_done(c) ==
  [ctx |-> [c EXCEPT !.calls = Append(@, Call("oper", "sb_histogram_done", 0))],
   r |-> 0]

(***************************************************************************)
(* The registry and the life cycle                                         *)
(***************************************************************************)
\* the range check with < for <=: the minimum sentinel passes as a type
BadType_MinAccepted(type) == type < LOG_MSG_TYPE_MIN \/ type >= LOG_MSG_TYPE_MAX

\* type <= LOG_MSG_TYPE_MIN || type >= LOG_MSG_TYPE_MAX
BadType(type) == type <= LOG_MSG_TYPE_MIN \/ type >= LOG_MSG_TYPE_MAX

\* log_add_handler on the chains H and the registered option sets A
log_add_handler(H, A, type, h) ==
  IF BadType(type) THEN [H |-> H, A |-> A, r |-> 1]
  ELSE [H |-> [H EXCEPT ![type] = Append(@, h)],
        A |-> IF HasArgs(h) THEN A \cup {h} ELSE A,
        r |-> 0]

\* log_register on the registered option sets A
log_register(A) ==
  LET r1 == log_add_handler(EmptyChains, A, LOG_MSG_TYPE_TEXT, "text")
      r2 == log_add_handler(r1.H, r1.A, LOG_MSG_TYPE_OPER, "oper")
  IN  [H |-> r2.H, A |-> r2.A, r |-> 0]

\* handler->ops.init(): context and result, the call recorded
InitOne(c, H, inited, h, in) ==
  LET x == CASE h = "text" -> text_handler_init(c, in.optV)
             [] h = "oper" -> oper_handler_init(c, H, inited, in.optP, in.optH,
                                                in.histRes, in.pr)
             [] OTHER -> [ctx |-> c, r |-> in.ir]
  IN  [ctx |-> [x.ctx EXCEPT !.calls = Append(@, Call(h, "init", x.r))], r |-> x.r]

\* the walk without its "return 1": a failing init is passed by
RECURSIVE InitWalk_NoFailFast(_, _, _, _, _, _)
InitWalk_NoFailFast(c, H, inited, hs, k, in) ==
  IF k > Len(hs) THEN [ctx |-> c, r |-> 0]
  ELSE IF ~HasInit(hs[k]) THEN InitWalk_NoFailFast(c, H, inited, hs, k + 1, in)
  ELSE InitWalk_NoFailFast(InitOne(c, H, inited, hs[k], in).ctx, H, inited, hs,
                           k + 1, in)

\* line 170: a handler without init is passed over, a failing init ends the walk
RECURSIVE InitWalk(_, _, _, _, _, _)
InitWalk(c, H, inited, hs, k, in) ==
  IF k > Len(hs) THEN [ctx |-> c, r |-> 0]
  ELSE IF ~HasInit(hs[k]) THEN InitWalk(c, H, inited, hs, k + 1, in)
  ELSE LET x == InitOne(c, H, inited, hs[k], in)
       IN  IF x.r # 0 THEN [ctx |-> x.ctx, r |-> 1]
           ELSE InitWalk(x.ctx, H, inited, hs, k + 1, in)

\* log_init: context and result
log_init(c, H, inited, in) == InitWalk(c, H, inited, AllHandlers(H), 1, in)

\* a log_init that clears the flag when it fails
InitializedAfterInit_ClearOnFailure(inited, r) == IF r = 0 THEN 1 ELSE 0

\* the flag after log_init returned r
InitializedAfterInit(inited, r) == IF r = 0 THEN 1 ELSE inited

\* handler->ops.done(), the call recorded
DoneOne(c, h, dr) ==
  LET x == IF h = "oper" THEN oper_handler_done(c) ELSE [ctx |-> c, r |-> dr]
  IN  [x.ctx EXCEPT !.calls = Append(@, Call(h, "done", x.r))]

\* a walk that ends at the first done that returns non-zero
RECURSIVE DoneWalk_StopOnFailure(_, _, _, _)
DoneWalk_StopOnFailure(c, hs, k, dr) ==
  IF k > Len(hs) THEN c
  ELSE IF ~HasDone(hs[k]) THEN DoneWalk_StopOnFailure(c, hs, k + 1, dr)
  ELSE LET c1 == DoneOne(c, hs[k], dr)
       IN  IF c1.calls[Len(c1.calls)].r # 0 THEN c1
           ELSE DoneWalk_StopOnFailure(c1, hs, k + 1, dr)

\* lines 191-199
RECURSIVE DoneWalk(_, _, _, _)
DoneWalk(c, hs, k, dr) ==
  IF k > Len(hs) THEN c
  ELSE IF ~HasDone(hs[k]) THEN DoneWalk(c, hs, k + 1, dr)
  ELSE DoneWalk(DoneOne(c, hs[k], dr), hs, k + 1, dr)

\* log_done: the context it leaves
log_done(c, H, dr) == DoneWalk(c, AllHandlers(H), 1, dr)

\* the flag after log_done
InitializedAfterDone == 0

(***************************************************************************)
(* Initial state: static storage is zero and log_register has run          *)
(***************************************************************************)
NoInputs ==
  [type |-> 0, h |-> "", priority |-> 0, text |-> EmptyStr, allow_dup |-> FALSE,
   n |-> 0, optV |-> 0, optP |-> << >>, optH |-> 0, histRes |-> 0,
   ir |-> 0, pr |-> 0, dr |-> 0]

\* the record of a call: its name, its inputs, and whether the call before
\* it was the same call with the same inputs
Last(op, in) == [op |-> op, in |-> in, again |-> (last.op = op /\ last.in = in)]

\* the inputs of a text call, from the message it built
TextInputs(msg, n, pr) ==
  [NoInputs EXCEPT !.type = msg.type, !.priority = msg.priority, !.text = msg.text,
                   !.allow_dup = msg.allow_dup, !.n = n, !.pr = pr]

\* no duplicate-checked message was written yet
NoSeen == [has |-> FALSE, text |-> EmptyStr, reps |-> 0]

\* the history after a text call that found the flag inited and the verbosity v
\* and wrote the lines o
SeenAfterText(sn, msg, inited, v, o) ==
  IF inited = 1 /\ ~msg.allow_dup /\ msg.priority <= v
  THEN IF o = << >> THEN [sn EXCEPT !.reps = @ + 1]
       ELSE [has |-> TRUE, text |-> msg.text, reps |-> 0]
  ELSE sn

\* the history after a log_init that found the flag inited, made the calls cl
\* and wrote the lines o: a successful text handler init starts it anew, and a
\* message the handlers wrote after that is the text written last
SeenAfterInit(sn, inited, cl, o) ==
  LET s0 == IF \E k \in 1 .. Len(cl) : cl[k] = Call("text", "init", 0)
            THEN NoSeen ELSE sn
      written == {k \in 1 .. Len(o) : o[k].kind = "msg"}
  IN  IF inited = 1 /\ written # {}
      THEN [has |-> TRUE, text |-> o[CHOOSE k \in written : TRUE].text, reps |-> 0]
      ELSE s0

\* nothing was written to the console yet
NoLine == [kind |-> "none", text |-> EmptyStr, num |-> 0]

\* a console line as the history keeps it: its kind, for a message line the
\* text after the prefix, for a notice the number in it
TopLine(line) == [kind |-> line.kind, text |-> line.text, num |-> line.num]

\* the line written last after a call that wrote the lines o
TopAfter(tp, o) == IF o = << >> THEN tp ELSE TopLine(o[Len(o)])

\* what the lines o account for: one per message line, the count of each
\* repeat notice
RECURSIVE Accounted(_, _)
Accounted(o, k) ==
  IF k > Len(o) THEN 0
  ELSE (CASE o[k].kind = "msg" -> 1 [] o[k].kind = "repeat" -> o[k].num [] OTHER -> 0)
       + Accounted(o, k + 1)

\* the account after a call that dispatched a duplicate-checked message to
\* the text handler, which found the verbosity v and wrote the lines o
UnprintedAfter(u, msg, v, o) ==
  IF msg.priority <= v THEN u + 1 - Accounted(o, 1) ELSE u

\* worker threads
Threads == 1 .. NThreads

\* no message: the thread is outside a dispatch
NoMsg == [type |-> LOG_MSG_TYPE_TEXT, priority |-> 0, text |-> EmptyStr,
          allow_dup |-> FALSE]

AllIdle == \A t \in Threads : pc[t] = "idle"

\* the account after a log_init that made the calls cl and wrote the lines o:
\* a successful text handler init starts it anew, and a FATAL message of the
\* operation handler's init that reached the text handler is admitted
UnprintedAfterInit(u, cl, o) ==
  LET u0 == IF \E k \in 1 .. Len(cl) : cl[k] = Call("text", "init", 0) THEN 0 ELSE u
  IN  IF \E k \in 1 .. Len(cl) : cl[k] = Call("text", "process", 0)
      THEN u0 + 1 - Accounted(o, 1)
      ELSE u0

Init ==
  /\ seen = NoSeen
  /\ top = NoLine
  /\ unprinted = 0
  /\ pc = [t \in Threads |-> "idle"]
  /\ tmsg = [t \in Threads |-> NoMsg]
  /\ text_mutex = 0
  /\ owner = 0
  /\ tnote = 0
  /\ handlers = log_register({}).H
  /\ arg_sets = log_register({}).A
  /\ reg_order = AllHandlers(log_register({}).H)
  /\ initialized = 0
  /\ verbosity = 0
  /\ text_buf = EmptyStr
  /\ text_cnt = 0
  /\ percentiles = << >>
  /\ npercentiles = 0
  /\ histogram = 0
  /\ last = [op |-> "start", in |-> NoInputs, again |-> FALSE]
  /\ out = << >>
  /\ calls = << >>
  /\ nlock = 0
  /\ writes = << >>
  /\ ret = 0

\* the variables a call tree changes, from the context it ended in; the calls
\* of the interface are made while no worker thread is in a dispatch
Commit(c) ==
  /\ AllIdle
  /\ UNCHANGED <<pc, tmsg, text_mutex, owner, tnote>>
  /\ verbosity' = c.verbosity
  /\ text_buf' = c.buf
  /\ text_cnt' = c.cnt
  /\ percentiles' = c.pct
  /\ npercentiles' = c.npct
  /\ histogram' = c.histogram
  /\ out' = c.out
  /\ calls' = c.calls
  /\ nlock' = c.nlock
  /\ writes' = c.writes
  /\ top' = TopAfter(top, c.out)

(***************************************************************************)
(* Actions: one per call of the logger's interface.  ir, pr and dr are     *)
(* what the init, process and done of ext1 and ext2 return when the call   *)
(* reaches them; they are 0 when the call reaches none.                    *)
(***************************************************************************)
InChain(h, type) == \E k \in 1 .. Len(handlers[type]) : handlers[type][k] = h

ExtInChain(type) == \E h \in ExtHandlers : InChain(h, type)

LogRegister ==
  LET x == log_register(arg_sets)
  IN  /\ handlers' = x.H
      /\ arg_sets' = x.A
      /\ reg_order' = AllHandlers(x.H)
      /\ ret' = x.r
      /\ last' = Last("log_register", NoInputs)
      /\ out' = << >> /\ calls' = << >> /\ nlock' = 0 /\ writes' = << >>
         /\ top' = top
         /\ UNCHANGED <<unprinted, pc, tmsg, text_mutex, owner, tnote>>
      /\ UNCHANGED <<initialized, verbosity, text_buf, text_cnt, percentiles,
                     npercentiles, histogram, seen>>

\* a handler is linked into one chain at most (its listitem is the link), so
\* only a handler that is in no chain is added to a valid type
LogAddHandler(type, h) ==
  /\ BadType(type) \/ h \notin Registered(handlers)
  /\ LET x == log_add_handler(handlers, arg_sets, type, h)
     IN  /\ handlers' = x.H
         /\ arg_sets' = x.A
         /\ reg_order' = (IF x.r = 0 THEN Append(reg_order, h) ELSE reg_order)
         /\ ret' = x.r
  /\ last' = Last("log_add_handler", [NoInputs EXCEPT !.type = type, !.h = h])
  /\ out' = << >> /\ calls' = << >> /\ nlock' = 0 /\ writes' = << >>
         /\ top' = top
         /\ UNCHANGED <<unprinted, pc, tmsg, text_mutex, owner, tnote>>
  /\ UNCHANGED <<initialized, verbosity, text_buf, text_cnt, percentiles,
                 npercentiles, histogram, seen>>

LogInit(optV, optP, optH, histRes, ir, pr) ==
  /\ "ext1" \notin Registered(handlers) => ir = 0
  /\ ~ExtInChain(LOG_MSG_TYPE_TEXT) => pr = 0
  /\ \E x \in {log_init(Ctx, handlers, initialized,
                          [optV |-> optV, optP |-> optP, optH |-> optH,
                           histRes |-> histRes, ir |-> ir, pr |-> pr])} :
         /\ Commit(x.ctx)
         /\ ret' = x.r
         /\ initialized' = InitializedAfterInit(initialized, x.r)
         /\ seen' = SeenAfterInit(seen, initialized, x.ctx.calls, x.ctx.out)
         /\ unprinted' = UnprintedAfterInit(unprinted, x.ctx.calls, x.ctx.out)
  /\ last' = Last("log_init",
                  [NoInputs EXCEPT !.optV = optV, !.optP = optP, !.optH = optH,
                                   !.histRes = histRes, !.ir = ir, !.pr = pr])
  /\ UNCHANGED <<handlers, arg_sets, reg_order>>

LogDone(dr) ==
  /\ "ext1" \notin Registered(handlers) => dr = 0
  /\ \E c \in {log_done(Ctx, handlers, dr)} : Commit(c)
  /\ ret' = 0
  /\ initialized' = InitializedAfterDone
  /\ last' = Last("log_done", [NoInputs EXCEPT !.dr = dr])
  /\ UNCHANGED <<handlers, arg_sets, reg_order, seen, unprinted>>

\* the repeat counter is followed up to MaxRepeat
LogText(priority, body, n, pr) ==
  /\ ~ExtInChain(LOG_MSG_TYPE_TEXT) => pr = 0
  /\ \E c \in {log_text(Ctx, handlers, initialized, priority, body, 0, n, pr)} :
         /\ c.cnt <= MaxRepeat
         /\ Commit(c)
         /\ seen' = SeenAfterText(seen, TextMessage(priority, body, 0, n),
                                  initialized, verbosity, c.out)
         /\ unprinted' = (IF initialized = 1
                          THEN UnprintedAfter(unprinted,
                                              TextMessage(priority, body, 0, n),
                                              verbosity, c.out)
                          ELSE unprinted)
  /\ ret' = 0
  /\ last' = Last("log_text", TextInputs(TextMessage(priority, body, 0, n), n, pr))
  /\ UNCHANGED <<handlers, arg_sets, reg_order, initialized>>

LogTimestamp(priority, seconds, body, n, pr) ==
  /\ ~ExtInChain(LOG_MSG_TYPE_TEXT) => pr = 0
  /\ \E c \in {log_timestamp(Ctx, handlers, initialized, priority, seconds, body,
                             n, pr)} : Commit(c)
  /\ ret' = 0
  /\ UNCHANGED <<seen, unprinted>>
  /\ last' = Last("log_timestamp",
                  TextInputs(TimestampMessage(priority, seconds, body, n), n, pr))
  /\ UNCHANGED <<handlers, arg_sets, reg_order, initialized>>

\* ub = "go_on" wherever the call has one outcome only
LogErrno(priority, body, n, ub) ==
  /\ n <= TEXT_BUFFER_SIZE => ub = "go_on"
  /\ \E x \in {log_errno(Ctx, handlers, initialized, priority, body, n, ub, 0)} :
         /\ x.ctx.cnt <= MaxRepeat
         /\ Commit(x.ctx)
         /\ seen' = (IF x.sent
                     THEN SeenAfterText(seen, TextMessage(priority, body, x.arg, x.m),
                                        initialized, verbosity, x.ctx.out)
                     ELSE seen)
         /\ unprinted' = (IF x.sent /\ initialized = 1
                          THEN UnprintedAfter(unprinted,
                                              TextMessage(priority, body, x.arg, x.m),
                                              verbosity, x.ctx.out)
                          ELSE unprinted)
         /\ last' = Last("log_errno",
                         [TextInputs(IF x.sent
                                     THEN TextMessage(priority, body, x.arg, x.m)
                                     ELSE TextMsg(priority, EmptyStr, FALSE), n, 0)
                            EXCEPT !.h = ub])
  /\ ret' = 0
  /\ UNCHANGED <<handlers, arg_sets, reg_order, initialized>>

\* log_msg with an OPER message, as the benchmark's workers call it
LogMsgOper(pr) ==
  /\ ~ExtInChain(LOG_MSG_TYPE_OPER) => pr = 0
  /\ \E c \in {log_msg(Ctx, handlers, OperMsg, pr)} : Commit(c)
  /\ ret' = 0
  /\ last' = Last("log_msg", [NoInputs EXCEPT !.type = LOG_MSG_TYPE_OPER, !.pr = pr])
  /\ UNCHANGED <<handlers, arg_sets, reg_order, initialized, seen, unprinted>>

(***************************************************************************)
(* Worker threads.  After log_init the benchmark's threads call log_text   *)
(* and log_timestamp concurrently; each call reaches text_handler_process  *)
(* through log_msg (the TEXT chain holds the text handler).  A thread      *)
(* takes one statement of text_handler_process per step:                   *)
(*   filter      line 431   priority > verbosity: return                   *)
(*   lock        line 436   pthread_mutex_lock(&text_mutex)                *)
(*   cmp         line 437   strcmp(text_buf, text)                         *)
(*   inc         line 439   text_cnt++                                     *)
(*   unlock_dup  line 440   pthread_mutex_unlock, return                   *)
(*   notice      line 446   if (text_cnt > 0) printf of the repeat notice  *)
(*   reset       line 449   text_cnt = 0                                   *)
(*   copy        line 450   strncpy(text_buf, text, TEXT_BUFFER_SIZE)      *)
(*   unlock      line 452   pthread_mutex_unlock                           *)
(*   print       line 455   printf of the message line, return             *)
(***************************************************************************)
\* the variables no step of a worker thread changes
ThreadFrame ==
  UNCHANGED <<handlers, arg_sets, reg_order, initialized, verbosity, percentiles,
              npercentiles, histogram, last, out, calls, nlock, writes, ret, seen>>

\* threads inside a dispatch
InFlight == Cardinality({t \in Threads : pc[t] # "idle"})

\* a lock that is taken without waiting for its holder
CanLock_NoWait(m) == TRUE

\* pthread_mutex_lock returns when no thread holds the mutex
CanLock(m) == m = 0

\* an unlock that is left out
Unlock_Forgotten(m) == m

\* pthread_mutex_unlock, line 452
Unlock(m) == 0

\* the unlock of the duplicate branch left out
UnlockDup_Forgotten(m) == m

\* pthread_mutex_unlock, line 440
UnlockDup(m) == 0

\* a notice written also for a count of zero
NoticeDue_Always(cnt) == TRUE

\* if (text_cnt > 0), line 446
NoticeDue(cnt) == cnt > 0

\* the counter left as it is after the notice
CntAfterNotice_Kept(cnt) == cnt

\* text_cnt = 0, line 449
CntAfterNotice(cnt) == 0

\* a worker calls log_text or log_timestamp, which builds msg and hands it to
\* log_msg; the repeat counter is followed up to MaxRepeat + 1
TBegin(t, msg) ==
  /\ pc[t] = "idle"
  /\ initialized = 1
  /\ handlers[LOG_MSG_TYPE_TEXT] = <<"text">>
  /\ text_cnt + InFlight <= MaxRepeat
  /\ pc' = [pc EXCEPT ![t] = "filter"]
  /\ tmsg' = [tmsg EXCEPT ![t] = msg]
  /\ UNCHANGED <<text_buf, text_cnt, text_mutex, top, unprinted, owner, tnote>>
  /\ ThreadFrame

TFilter(t) ==
  /\ pc[t] = "filter"
  /\ IF Filtered(tmsg[t].priority, verbosity)
     THEN /\ pc' = [pc EXCEPT ![t] = "idle"]
          /\ tmsg' = [tmsg EXCEPT ![t] = NoMsg]
          /\ UNCHANGED unprinted
     ELSE IF tmsg[t].allow_dup
     THEN /\ pc' = [pc EXCEPT ![t] = "print"]
          /\ UNCHANGED <<tmsg, unprinted>>
     ELSE /\ pc' = [pc EXCEPT ![t] = "lock"]
          /\ unprinted' = unprinted + 1
          /\ UNCHANGED tmsg
  /\ UNCHANGED <<text_buf, text_cnt, text_mutex, top, owner, tnote>>
  /\ ThreadFrame

TLock(t) ==
  /\ pc[t] = "lock"
  /\ CanLock(text_mutex)
  /\ text_mutex' = t
  /\ pc' = [pc EXCEPT ![t] = "cmp"]
  /\ UNCHANGED <<text_buf, text_cnt, tmsg, top, unprinted, owner, tnote>>
  /\ ThreadFrame

TCompare(t) ==
  /\ pc[t] = "cmp"
  /\ pc' = [pc EXCEPT ![t] = IF StrEq(text_buf, tmsg[t].text) THEN "inc" ELSE "notice"]
  /\ UNCHANGED <<text_buf, text_cnt, text_mutex, tmsg, top, unprinted, owner, tnote>>
  /\ ThreadFrame

TCount(t) ==
  /\ pc[t] = "inc"
  /\ text_cnt' = IncCnt(text_cnt)
  /\ pc' = [pc EXCEPT ![t] = "unlock_dup"]
  /\ UNCHANGED <<text_buf, text_mutex, tmsg, top, unprinted, owner, tnote>>
  /\ ThreadFrame

TUnlockDup(t) ==
  /\ pc[t] = "unlock_dup"
  /\ text_mutex' = UnlockDup(text_mutex)
  /\ pc' = [pc EXCEPT ![t] = "idle"]
  /\ tmsg' = [tmsg EXCEPT ![t] = NoMsg]
  /\ UNCHANGED <<text_buf, text_cnt, top, unprinted, owner, tnote>>
  /\ ThreadFrame

TNotice(t) ==
  /\ pc[t] = "notice"
  /\ IF NoticeDue(text_cnt)
     THEN /\ top' = TopLine(RepeatLine(text_cnt))
          /\ unprinted' = unprinted - text_cnt
          /\ tnote' = t
     ELSE UNCHANGED <<top, unprinted, tnote>>
  /\ pc' = [pc EXCEPT ![t] = "reset"]
  /\ UNCHANGED <<text_buf, text_cnt, text_mutex, tmsg, owner>>
  /\ ThreadFrame

TReset(t) ==
  /\ pc[t] = "reset"
  /\ text_cnt' = CntAfterNotice(text_cnt)
  /\ pc' = [pc EXCEPT ![t] = "copy"]
  /\ UNCHANGED <<text_buf, text_mutex, tmsg, top, unprinted, owner, tnote>>
  /\ ThreadFrame

TCopy(t) ==
  /\ pc[t] = "copy"
  /\ text_buf' = Strncpy(tmsg[t].text, TEXT_BUFFER_SIZE)
  /\ owner' = t
  /\ pc' = [pc EXCEPT ![t] = "unlock"]
  /\ UNCHANGED <<text_cnt, text_mutex, tmsg, top, unprinted, tnote>>
  /\ ThreadFrame

TUnlock(t) ==
  /\ pc[t] = "unlock"
  /\ text_mutex' = Unlock(text_mutex)
  /\ pc' = [pc EXCEPT ![t] = "print"]
  /\ UNCHANGED <<text_buf, text_cnt, tmsg, top, unprinted, owner, tnote>>
  /\ ThreadFrame

TPrint(t) ==
  /\ pc[t] = "print"
  /\ top' = TopLine(MsgLine(get_msg_prefix(tmsg[t].priority), tmsg[t].text))
  /\ unprinted' = (IF tmsg[t].allow_dup THEN unprinted ELSE unprinted - 1)
  /\ owner' = (IF ~tmsg[t].allow_dup /\ owner = t THEN 0 ELSE owner)
  /\ tnote' = 0
  /\ pc' = [pc EXCEPT ![t] = "idle"]
  /\ tmsg' = [tmsg EXCEPT ![t] = NoMsg]
  /\ UNCHANGED <<text_buf, text_cnt, text_mutex>>
  /\ ThreadFrame

\* the steps of thread t inside text_handler_process, the lock apart
TRun(t) ==
  \/ TFilter(t) \/ TCompare(t) \/ TCount(t) \/ TUnlockDup(t) \/ TNotice(t)
  \/ TReset(t) \/ TCopy(t) \/ TUnlock(t) \/ TPrint(t)

(***************************************************************************)
(* SpecThreads: concurrent dispatch.  After log_init with the default      *)
(* verbosity, NThreads workers send, in every interleaving of their        *)
(* statements, duplicate-checked messages with two texts, a message the    *)
(* verbosity filters and a log_timestamp message.  SpecThreadsFair adds    *)
(* the scheduling: a thread that can take a step takes one, and a thread   *)
(* that waits for the mutex gets it if it is free again and again.         *)
(***************************************************************************)
ThreadMsgs ==
  {TextMessage(LOG_FATAL, "a", 0, 1), TextMessage(LOG_FATAL, "b", 0, 1),
   TextMessage(LOG_DEBUG, "a", 0, 1), TimestampMessage(LOG_FATAL, 0, "a", 1)}

NextThreads ==
  \/ LogInit(DefaultVerbosity, <<"95">>, 0, 0, 0, 0)
  \/ \E t \in Threads, msg \in ThreadMsgs : TBegin(t, msg)
  \/ \E t \in Threads : TLock(t)
  \/ \E t \in Threads : TFilter(t)
  \/ \E t \in Threads : TCompare(t)
  \/ \E t \in Threads : TCount(t)
  \/ \E t \in Threads : TUnlockDup(t)
  \/ \E t \in Threads : TNotice(t)
  \/ \E t \in Threads : TReset(t)
  \/ \E t \in Threads : TCopy(t)
  \/ \E t \in Threads : TUnlock(t)
  \/ \E t \in Threads : TPrint(t)

SpecThreads == Init /\ [][NextThreads]_vars

SpecThreadsFair ==
  /\ Init
  /\ [][NextThreads]_vars
  /\ \A t \in Threads : WF_vars(TRun(t)) /\ SF_vars(TLock(t))

(***************************************************************************)
(* Spec: the text path.  The chains are as log_register leaves them; every *)
(* priority meets every configured verbosity, in both modes of the logger. *)
(* log_text sends every short rendering, log_timestamp one rendering: its  *)
(* text starts with the time stamp and equals no text of log_text.         *)
(***************************************************************************)
Next ==
  \/ \E optV \in VerbosityOpts : LogInit(optV, <<"95">>, 0, 0, 0, 0)
  \/ LogDone(0)
  \/ \E p \in Priorities, t \in ShortTexts : LogText(p, t[1], t[2], 0)
  \/ \E p \in Priorities, s \in Seconds : LogTimestamp(p, s, "a", 1, 0)

Spec == Init /\ [][Next]_vars

(***************************************************************************)
(* SpecChain: the registry, the life cycle and the dispatcher.  Handlers   *)
(* are added to every chain in every order, with valid and invalid types;  *)
(* each init, process and done of ext1 and ext2 and the histogram's init   *)
(* succeed or fail; the options are the defaults.                          *)
(***************************************************************************)
\* the type values log_add_handler is tried with
TypeArgs == (LOG_MSG_TYPE_MIN - 1) .. (LOG_MSG_TYPE_MAX + 1)

NextChain ==
  \/ LogRegister
  \/ \E type \in TypeArgs, h \in ExtHandlers : LogAddHandler(type, h)
  \/ \E histRes \in Results, ir \in Results, pr \in Results :
        LogInit(DefaultVerbosity, <<"95">>, 0, histRes, ir, pr)
  \/ \E dr \in Results : LogDone(dr)
  \/ \E pr \in Results : LogText(LOG_FATAL, "a", 1, pr)
  \/ \E pr \in Results : LogMsgOper(pr)

SpecChain == Init /\ [][NextChain]_vars

(***************************************************************************)
(* SpecOper: the handlers' inits and their options.  log_init runs with    *)
(* every percentile list up to MaxPct entries, the histogram flag off and  *)
(* on, the histogram's init succeeding and failing, and with a verbosity   *)
(* above LOG_DEBUG; log_done lets it run in both modes of the logger.      *)
(***************************************************************************)
NextOper ==
  \/ \E optP \in PctLists, optH \in 0 .. 1, histRes \in Results :
        LogInit(DefaultVerbosity, optP, optH, histRes, 0, 0)
  \/ LogInit(LOG_DEBUG + 1, <<"95">>, 0, 0, 0, 0)
  \/ LogDone(0)

SpecOper == Init /\ [][NextOper]_vars

(***************************************************************************)
(* SpecBuf: the fixed buffer of the text front ends.  Each of log_text,    *)
(* log_timestamp and log_errno renders templates of 1 character and of     *)
(* every length from 2 below to MaxOver above the length that fills what   *)
(* the buffer has left for it; log_errno also meets a rendering error.     *)
(***************************************************************************)
\* rendered lengths around the length cap that fills the space
EdgeLens(cap) == (cap - 2) .. (cap + MaxOver)

TextLens == {1} \cup EdgeLens(TEXT_BUFFER_SIZE)
TimestampLens == {1} \cup EdgeLens(TEXT_BUFFER_SIZE - TsLen(0))
ErrnoLens == {-1, 1} \cup EdgeLens(TEXT_BUFFER_SIZE - ErrnoSuffixLen)
               \cup EdgeLens(TEXT_BUFFER_SIZE)

NextBuf ==
  \/ LogInit(DefaultVerbosity, <<"95">>, 0, 0, 0, 0)
  \/ LogDone(0)
  \/ \E n \in TextLens : LogText(LOG_FATAL, "a", n, 0)
  \/ \E n \in TimestampLens : LogTimestamp(LOG_FATAL, 0, "a", n, 0)
  \/ \E n \in ErrnoLens, ub \in {"go_on", "abort"} : LogErrno(LOG_FATAL, "a", n, ub)

SpecBuf == Init /\ [][NextBuf]_vars

(***************************************************************************)
(* Properties of the text path, checked under Spec                         *)
(***************************************************************************)
IsTextCall(l) == l.op \in {"log_text", "log_timestamp"}

\* the console line of the message a text call built
LineOf(l) == MsgLine(get_msg_prefix(l.in.priority), l.in.text)

\* the call wrote the line of its message
Shown(o, l) == \E k \in 1 .. Len(o) : o[k] = LineOf(l)

\* C1 as stated: a TEXT message dispatched while the logger is initialized is
\* shown on the console if and only if its priority is <= the verbosity.
C1_ShownIffAdmitted ==
  [][(IsTextCall(last') /\ initialized = 1)
       => (Shown(out', last') <=> last'.in.priority <= verbosity)]_vars

\* C1, amended: a TEXT message dispatched while the logger is initialized is
\* shown if and only if its priority is <= the verbosity and it is not a
\* duplicate-checked message whose text equals the stored last text; a message
\* with priority > verbosity writes nothing and changes no duplicate state.
C1_ShownIffAdmittedAndNew ==
  [][(IsTextCall(last') /\ initialized = 1)
       => LET S == last'.in.priority
              V == verbosity
              dup == ~last'.in.allow_dup /\ last'.in.text = text_buf
          IN  /\ Shown(out', last') <=> (S <= V /\ ~dup)
              /\ S > V => /\ out' = << >>
                          /\ text_buf' = text_buf
                          /\ text_cnt' = text_cnt]_vars

\* a message at the threshold itself (S = V) was shown by the initialized logger
C1_Witness ==
  /\ initialized = 1
  /\ last.op = "log_text"
  /\ last.in.priority = verbosity
  /\ out = <<LineOf(last)>>

\* C2: with duplicate checking, once a text T was written, every admitted
\* message with text T writes nothing and adds one to the repeat counter; the
\* next admitted message with another text writes "(last message repeated N
\* times)" with N the number of suppressed repeats (nothing when N = 0), sets
\* the counter to 0, stores its text as the last text and writes its line.
C2_DedupRun ==
  [][(last'.op = "log_text" /\ initialized = 1 /\ last'.in.priority <= verbosity
        /\ seen.has)
       => IF last'.in.text = seen.text
          THEN /\ out' = << >>
               /\ text_cnt' = seen.reps + 1
               /\ text_cnt' = text_cnt + 1
               /\ text_buf' = text_buf
          ELSE /\ out' = (IF seen.reps >= 1 THEN <<RepeatLine(seen.reps)>> ELSE << >>)
                           \o <<LineOf(last')>>
               /\ text_cnt' = 0
               /\ text_buf' = last'.in.text]_vars

\* a distinct line came after MaxRepeat suppressed repeats: the notice with
\* that count, then the line
C2_Witness ==
  /\ last.op = "log_text"
  /\ initialized = 1
  /\ out = <<RepeatLine(MaxRepeat), LineOf(last)>>
  /\ text_cnt = 0
  /\ text_buf = last.in.text

\* C3: a message with the allow-duplicates flag, which every log_timestamp
\* message has, that passes the verbosity filter is written on every call, takes
\* no lock and leaves the last-text buffer and the repeat counter as they were.
C3_AllowDuplicates ==
  [][(last'.op = "log_timestamp" /\ initialized = 1
        /\ last'.in.priority <= verbosity)
       => /\ last'.in.allow_dup
          /\ out' = <<LineOf(last')>>
          /\ nlock' = 0
          /\ text_buf' = text_buf
          /\ text_cnt' = text_cnt]_vars

\* the same log_timestamp call twice in a row, written the second time too,
\* with a repeat of a log_text message pending
C3_Witness ==
  /\ last.op = "log_timestamp"
  /\ last.again
  /\ initialized = 1
  /\ out = <<LineOf(last)>>
  /\ text_cnt > 0

\* C7: while the flag is 0 (at start, and after every log_done) each log_text
\* and log_timestamp call writes exactly its line, prefix included, whatever
\* its priority and the verbosity, calls no handler, takes no lock and leaves
\* the last-text buffer and the repeat counter as they were.
C7_DegradedPath ==
  [][/\ (IsTextCall(last') /\ initialized = 0)
          => /\ out' = <<LineOf(last')>>
             /\ calls' = << >>
             /\ nlock' = 0
             /\ text_buf' = text_buf
             /\ text_cnt' = text_cnt
     /\ last'.op = "log_done" => initialized' = 0
     /\ (last'.op = "log_init" /\ initialized = 0 /\ ret' # 0) => initialized' = 0]_vars

\* after a log_done that followed a successful init, a DEBUG message above the
\* verbosity, equal to the stored last text, went to the console
C7_Witness ==
  /\ initialized = 0
  /\ last.op = "log_text"
  /\ last.in.priority > verbosity
  /\ last.in.text = text_buf
  /\ out = <<LineOf(last)>>

(***************************************************************************)
(* Properties of the registry, the life cycle and the dispatcher, checked  *)
(* under SpecChain                                                         *)
(***************************************************************************)
\* the calls of cl that are calls of the operation op, in order
CallsOf(cl, op) == SelectSeq(cl, LAMBDA x : x.op = op)

\* the handlers the calls of cl were made on, in order
HandlersOf(cl) == [k \in 1 .. Len(cl) |-> cl[k].h]

\* the handlers of the chains H, chain by chain from type 0 up and in each chain
\* in the order they were added, that have an init, and those that have a done
InitOrder(H) == SelectSeq(H[0] \o H[1] \o H[2], LAMBDA h : h \in {"text", "oper", "ext1"})
DoneOrder(H) == SelectSeq(H[0] \o H[1] \o H[2], LAMBDA h : h \in {"oper", "ext1"})

\* the handlers of one chain, in the order they were added, that have a process
ProcessOrder(chain) == SelectSeq(chain, LAMBDA h : h \in {"text", "ext1", "ext2"})

\* the call dispatched a message of the type it names through log_msg
Dispatched(l, inited) ==
  \/ l.op = "log_msg"
  \/ IsTextCall(l) /\ inited = 1

\* C4: log_msg calls process once on every handler of the message's chain that
\* has one, in the order the handlers were added, and goes on to the end of
\* the chain whatever a process returns.
C4_DispatchWholeChain ==
  [][Dispatched(last', initialized)
       => /\ HandlersOf(CallsOf(calls', "process"))
               = ProcessOrder(handlers[last'.in.type])
          /\ \A k \in 1 .. Len(calls') :
               (calls'[k].op = "process" /\ calls'[k].h \in ExtHandlers)
                 => calls'[k].r = last'.in.pr]_vars

\* ext1 returned an error and ext2, added after it, was still called
C4_Witness ==
  /\ last.op = "log_text"
  /\ initialized = 1
  /\ handlers[LOG_MSG_TYPE_TEXT] = <<"text", "ext1", "ext2">>
  /\ calls = <<Call("text", "process", 0), Call("ext1", "process", 1),
               Call("ext2", "process", 1)>>

\* C5 as stated: log_init calls the inits in the order the handlers were
\* registered, whatever their chains; it stops at the first init that returns
\* non-zero, calls no later init and returns non-zero; it returns 0 only when
\* every init there is was called and returned 0.
C5_InitInRegistrationOrder ==
  [][last'.op = "log_init"
       => LET inits == CallsOf(calls', "init")
              order == SelectSeq(reg_order, LAMBDA h : h \in {"text", "oper", "ext1"})
              n == Len(inits)
          IN  /\ n <= Len(order)
              /\ HandlersOf(inits) = SubSeq(order, 1, n)
              /\ \A k \in 1 .. (n - 1) : inits[k].r = 0
              /\ ret' = 0 <=> (n = Len(order) /\ \A k \in 1 .. n : inits[k].r = 0)
              /\ ret' # 0 => (n >= 1 /\ inits[n].r # 0)]_vars

\* C5, amended: log_init calls the inits chain by chain, from the lowest
\* message type up, and within a chain in the order the handlers were
\* registered; it stops at the first init that returns non-zero, calls no later
\* init and returns non-zero; it returns 0 only when every init there is was
\* called and returned 0.
C5_InitFailFast ==
  [][last'.op = "log_init"
       => LET inits == CallsOf(calls', "init")
              order == InitOrder(handlers)
              n == Len(inits)
          IN  /\ n <= Len(order)
              /\ HandlersOf(inits) = SubSeq(order, 1, n)
              /\ \A k \in 1 .. (n - 1) : inits[k].r = 0
              /\ ret' = 0 <=> (n = Len(order) /\ \A k \in 1 .. n : inits[k].r = 0)
              /\ ret' # 0 => (n >= 1 /\ inits[n].r # 0)]_vars

\* ext1's init, second in the TEXT chain though registered after oper, was
\* called before oper's and failed: oper's init was not called
C5_Witness ==
  /\ last.op = "log_init"
  /\ ret # 0
  /\ reg_order = <<"text", "oper", "ext1">>
  /\ handlers[LOG_MSG_TYPE_OPER] = <<"oper">>
  /\ CallsOf(calls, "init") = <<Call("text", "init", 0), Call("ext1", "init", 1)>>

\* C6 as stated: whenever log_init returns failure the initialized flag is 0
\* on return.
C6_FailureClearsFlag ==
  (last.op = "log_init" /\ ret # 0) => initialized = 0

\* C6, amended: a log_init that returns failure leaves the initialized flag as
\* it found it (0 when no log_init succeeded since the start or the last
\* log_done, still 1 after an earlier successful log_init), and calls no done:
\* the handlers it initialized are not rolled back.
C6_FailureKeepsFlag ==
  [][(last'.op = "log_init" /\ ret' # 0)
       => /\ initialized' = initialized
          /\ CallsOf(calls', "done") = << >>
          /\ CallsOf(calls', "sb_histogram_done") = << >>]_vars

\* a log_init failed in the histogram's init after the text handler and ext1
\* were initialized, with the flag still 1 from an earlier log_init
C6_Witness ==
  /\ last.op = "log_init"
  /\ ret # 0
  /\ initialized = 1
  /\ calls = <<Call("text", "init", 0), Call("ext1", "init", 0),
               Call("oper", "sb_histogram_init", 1), Call("oper", "init", 1)>>

\* C8: log_add_handler with a type <= the minimum sentinel or >= the maximum
\* sentinel returns failure, changes no chain and registers no options; with a
\* valid type it adds the handler at the tail of that type's chain, leaves the
\* other chains as they were and registers the handler's options if it has any.
C8_AddHandler ==
  [][last'.op = "log_add_handler"
       => LET type == last'.in.type
              h == last'.in.h
          IN  IF type <= 0 \/ type >= 3
              THEN /\ ret' # 0
                   /\ handlers' = handlers
                   /\ arg_sets' = arg_sets
              ELSE /\ ret' = 0
                   /\ handlers'[type] = handlers[type] \o <<h>>
                   /\ \A t \in ChainIds \ {type} : handlers'[t] = handlers[t]
                   /\ DOMAIN handlers' = DOMAIN handlers
                   /\ arg_sets' = IF h = "ext2" THEN arg_sets \cup {h} ELSE arg_sets]_vars

\* ext2, which declares options, was refused for the minimum sentinel: it is
\* in no chain and its options are not registered
C8_Witness ==
  /\ last.op = "log_add_handler"
  /\ last.in.type = LOG_MSG_TYPE_MIN
  /\ last.in.h = "ext2"
  /\ ret # 0
  /\ "ext2" \notin arg_sets
  /\ "ext2" \notin Registered(handlers)
  /\ "ext1" \in Registered(handlers)

(***************************************************************************)
(* Properties of the handlers' inits, checked under SpecOper               *)
(***************************************************************************)
\* the option strings that denote a number in [0, 100], and the number
InRangeTokens == {"0", "95", "100"}
TokenValue(tok) == CASE tok = "0" -> 0 [] tok = "95" -> 95 [] tok = "100" -> 100

AllInRange(toks) == \A k \in 1 .. Len(toks) : toks[k] \in InRangeTokens

\* log_init called the operation handler's init, which returned r
OperInitReturned(l, cl, r) ==
  l.op = "log_init" /\ \E k \in 1 .. Len(cl) : cl[k] = Call("oper", "init", r)

\* a console line "FATAL: <message>\n" whose message is the literal fmt
IsFatalLine(line, fmt) ==
  /\ line.kind = "msg"
  /\ line.prefix = "FATAL: "
  /\ line.text.body = fmt
  /\ line.text.nl

\* C9: the operation handler's init succeeds if and only if every configured
\* percentile is in [0,100], the histogram flag is not set with an empty list,
\* and the histogram's init succeeds.  With a percentile out of range it writes
\* a FATAL message and does nothing more (percentiles, their count and the
\* histogram flag are not written, the histogram is not initialized); when it
\* succeeds the percentiles are stored in list order, their count is the
\* length of the list.
C9_OperInit ==
  [][(OperInitReturned(last', calls', 0) \/ OperInitReturned(last', calls', 1))
       => LET optP == last'.in.optP
              optH == last'.in.optH
              ok == OperInitReturned(last', calls', 0)
          IN  /\ ok <=> /\ AllInRange(optP)
                        /\ ~(optH # 0 /\ Len(optP) = 0)
                        /\ last'.in.histRes = 0
              /\ ~AllInRange(optP)
                   => /\ Len(out') = 1
                      /\ IsFatalLine(out'[1], InvalidPctFmt)
                      /\ percentiles' = percentiles
                      /\ npercentiles' = npercentiles
                      /\ histogram' = histogram
                      /\ CallsOf(calls', "sb_histogram_init") = << >>
              /\ ok => /\ npercentiles' = Len(optP)
                       /\ Len(percentiles') = Len(optP)
                       /\ \A k \in 1 .. Len(optP) :
                            percentiles'[k] = Num(TokenValue(optP[k]))]_vars

\* C10 as stated: every validation error of a handler init (verbosity out of
\* range, percentile outside [0,100], histogram with no percentiles) writes a
\* FATAL message through log_text before the init returns failure.
C10_EveryValidationErrorIsFatal ==
  (/\ last.op = "log_init"
   /\ ret # 0
   /\ CallsOf(calls, "sb_histogram_init") = << >>)
    => \E k \in 1 .. Len(out) : out[k].kind = "msg" /\ out[k].prefix = "FATAL: "

\* C10, amended: the validation errors of the operation handler's init (a
\* percentile it rejects, the histogram flag with no percentiles) write one
\* line "FATAL: <message>" through log_text before the init returns failure;
\* the validation error of the text handler's init (verbosity above DEBUG)
\* writes "Invalid value for verbosity: <value>" straight to the console,
\* with no severity and no prefix.
C10_ValidationMessages ==
  last.op = "log_init"
    => /\ OperInitReturned(last, calls, 1) /\ CallsOf(calls, "sb_histogram_init") = << >>
            => /\ Len(out) = 1
               /\ IF Len(last.in.optP) = 0
                  THEN IsFatalLine(out[1], HistogramFmt)
                  ELSE IsFatalLine(out[1], InvalidPctFmt)
       /\ (\E k \in 1 .. Len(calls) : calls[k] = Call("text", "init", 1))
            => /\ ret # 0
               /\ out = <<VerbosityLine(last.in.optV)>>
               /\ last.in.optV > 5

\* the histogram flag was set with no percentiles while the logger was
\* initialized: the FATAL line went through the text handler
C10_Witness ==
  /\ last.op = "log_init"
  /\ initialized = 1
  /\ last.in.optP = << >>
  /\ last.in.optH = 1
  /\ ret # 0
  /\ IsFatalLine(out[1], HistogramFmt)
  /\ CallsOf(calls, "process") = <<Call("text", "process", 0)>>
(***************************************************************************)
(* Properties of the fixed buffer, checked under SpecBuf                   *)
(***************************************************************************)
\* a write that stays inside buf[TEXT_BUFFER_SIZE]
InBuffer(w) ==
  /\ 0 <= w.off /\ w.off <= TEXT_BUFFER_SIZE
  /\ 0 <= w.size /\ w.off + w.size <= TEXT_BUFFER_SIZE

\* the call handed its message to log_text, which wrote it to the console or
\* dispatched it to the text handler
Forwarded(l, inited, o, cl) ==
  /\ l.in.text # EmptyStr
  /\ inited = 0 => o = <<LineOf(l)>>
  /\ inited = 1 => cl = <<Call("text", "process", 0)>>

\* C11: in log_errno, a rendering that fills or overflows the buffer (n >=
\* TEXT_BUFFER_SIZE) or fails (n < 0) skips the errno suffix and dispatches
\* nothing, and no write is made beyond the buffer or with a negative size;
\* otherwise the suffix is written within the space left after the rendering
\* and the result goes to log_text at the requested priority.
C11_ErrnoGuarded ==
  [][last'.op = "log_errno"
       => LET n == last'.in.n
          IN  /\ \A k \in 1 .. Len(writes') : InBuffer(writes'[k])
              /\ IF n < 0 \/ n >= TEXT_BUFFER_SIZE
                 THEN /\ writes' = <<BufWrite(0, TEXT_BUFFER_SIZE)>>
                      /\ out' = << >>
                      /\ calls' = << >>
                 ELSE /\ writes'[2] = BufWrite(n, TEXT_BUFFER_SIZE - n)
                      /\ last'.in.text.arg = Min(ErrnoSuffixLen, TEXT_BUFFER_SIZE - 1 - n)
                      /\ last'.in.text.n = n + last'.in.text.arg
                      /\ Forwarded(last', initialized, out', calls')]_vars

\* C12 as stated: in log_text and log_timestamp, for every rendered length, no
\* write goes outside the buffer, the output is truncated to fit without an
\* error, and the emitted line ends with exactly one newline.
C12_EndsWithNewline ==
  [][IsTextCall(last')
       => /\ \A k \in 1 .. Len(writes') : InBuffer(writes'[k])
          /\ StrLen(last'.in.text) <= TEXT_BUFFER_SIZE - 1
          /\ Forwarded(last', initialized, out', calls')
          /\ last'.in.text.nl]_vars

\* C12, amended: in log_text and log_timestamp, for every rendered length, no
\* write goes outside the buffer and the output is truncated to fit without an
\* error; the newline is appended only where it fits in what is left: the
\* emitted line ends with one newline when prefix and rendering take at most
\* TEXT_BUFFER_SIZE - 2 characters, and with none when they take more.
C12_TruncatedInBuffer ==
  [][IsTextCall(last')
       => LET t == last'.in.text
              room == TEXT_BUFFER_SIZE - TsLen(t.ts)
          IN  /\ \A k \in 1 .. Len(writes') : InBuffer(writes'[k])
              /\ t.n = Min(last'.in.n, room - 1)
              /\ StrLen(t) <= TEXT_BUFFER_SIZE - 1
              /\ Forwarded(last', initialized, out', calls')
              /\ t.nl <=> last'.in.n <= room - 2]_vars

\* a log_timestamp rendering longer than what the prefix left was cut, the
\* newline got no room, and the line went to the console without one
C12_Witness ==
  /\ last.op = "log_timestamp"
  /\ last.in.n > TEXT_BUFFER_SIZE - TsLen(0)
  /\ initialized = 0
  /\ out = <<LineOf(last)>>
  /\ ~last.in.text.nl
  /\ StrLen(last.in.text) = TEXT_BUFFER_SIZE - 1
  /\ writes[3] = BufWrite(TEXT_BUFFER_SIZE, 0)

(***************************************************************************)
(* Properties of log_done, checked under SpecChain                         *)
(***************************************************************************)
\* C13 as stated: log_done calls done once on every registered handler that
\* has one, in the order the handlers were registered, whatever their chains,
\* goes on after a done that returns failure, and leaves the flag 0.
C13_DoneInRegistrationOrder ==
  [][last'.op = "log_done"
       => LET dones == CallsOf(calls', "done")
          IN  /\ HandlersOf(dones)
                   = SelectSeq(reg_order, LAMBDA h : h \in {"oper", "ext1"})
              /\ \A k \in 1 .. Len(dones) :
                   dones[k].h \in ExtHandlers => dones[k].r = last'.in.dr
              /\ initialized' = 0]_vars

\* C13, amended: log_done calls done once on every registered handler that
\* has one, chain by chain from the lowest message type up and within a chain
\* in the order the handlers were registered, goes on after a done that
\* returns failure, and leaves the flag 0.
C13_DoneWholeChains ==
  [][last'.op = "log_done"
       => LET dones == CallsOf(calls', "done")
          IN  /\ HandlersOf(dones) = DoneOrder(handlers)
              /\ \A k \in 1 .. Len(dones) :
                   dones[k].h \in ExtHandlers => dones[k].r = last'.in.dr
              /\ initialized' = 0]_vars

\* ext1's done, in the TEXT chain though registered after oper, was called
\* first and failed; oper's done was still called, and the flag is 0
C13_Witness ==
  /\ last.op = "log_done"
  /\ reg_order = <<"text", "oper", "ext1">>
  /\ calls = <<Call("ext1", "done", 1), Call("oper", "sb_histogram_done", 0),
               Call("oper", "done", 0)>>
  /\ initialized = 0

(***************************************************************************)
(* Properties of the text handler's init and of the dedup history,         *)
(* checked under Spec                                                      *)
(***************************************************************************)
\* C14: the text handler's init fails if the configured verbosity is above
\* LOG_DEBUG, and otherwise succeeds and leaves the repeat counter 0 and the
\* last-text buffer empty; after a successful init the first admitted
\* duplicate-checked message with a non-empty text is written, with no repeat
\* notice before it, whatever was logged before that init.
C14_InitResetsDedup ==
  [][/\ last'.op = "log_init"
          => /\ CallsOf(calls', "init")[1].h = "text"
             /\ CallsOf(calls', "init")[1].r # 0 <=> last'.in.optV > LOG_DEBUG
             /\ CallsOf(calls', "init")[1].r = 0
                  => /\ verbosity' = last'.in.optV
                     /\ text_cnt' = 0
                     /\ text_buf' = EmptyStr
     /\ (/\ last'.op = "log_text"
         /\ initialized = 1
         /\ last'.in.priority <= verbosity
         /\ ~seen.has
         /\ StrLen(last'.in.text) > 0)
          => /\ out' = <<LineOf(last')>>
             /\ text_cnt' = 0
             /\ text_buf' = last'.in.text]_vars

\* the first admitted message after a successful init was written alone: the
\* history holds its text and no repeats
C14_Witness ==
  /\ last.op = "log_text"
  /\ initialized = 1
  /\ last.in.priority = LOG_DEBUG
  /\ verbosity = LOG_DEBUG
  /\ out = <<LineOf(last)>>
  /\ seen = [has |-> TRUE, text |-> last.in.text, reps |-> 0]
  /\ text_cnt = 0

\* the call was a duplicate-checked message that the verbosity admitted and
\* the text handler suppressed: it wrote nothing
Suppressed(l, inited, v, o) ==
  /\ l.op = "log_text"
  /\ inited = 1
  /\ l.in.priority <= v
  /\ o = << >>

\* C18 as stated: whenever text_handler_process suppresses a message, the line
\* written to the console most recently is a message line with that same text.
C18_SuppressedRepeatsTopLine ==
  [][Suppressed(last', initialized, verbosity, out')
       => /\ top.kind = "msg"
          /\ top.text = last'.in.text]_vars

\* C18, amended: whenever text_handler_process suppresses a message, the line
\* written most recently by a duplicate-checked message since the text
\* handler's last init has that same text; lines written after it by
\* allow-duplicates messages or by a failing log_init may be the most recent
\* lines of the console.
C18_SuppressedRepeatsLastChecked ==
  [][Suppressed(last', initialized, verbosity, out')
       => /\ seen.has
          /\ seen.text = last'.in.text
          /\ text_buf = last'.in.text
          /\ top' = top]_vars

\* a message was suppressed although the line written last was the line of a
\* log_timestamp message, with another text
C18_Witness ==
  /\ Suppressed(last, initialized, verbosity, out)
  /\ text_cnt = 1
  /\ seen.text = last.in.text
  /\ top.kind = "msg"
  /\ top.text.ts # NoTs
  /\ top.text # last.in.text

(***************************************************************************)
(* Claims about concurrent dispatch (SpecThreads, SpecThreadsFair).        *)
(***************************************************************************)
\* thread t is between pthread_mutex_lock and pthread_mutex_unlock
InCritical(t) ==
  pc[t] \in {"cmp", "inc", "unlock_dup", "notice", "reset", "copy", "unlock"}

\* the next statement of thread t reads or writes text_buf or text_cnt
Accessing(t) == pc[t] \in {"cmp", "inc", "notice", "reset", "copy"}

\* this step is a statement of thread t
StepOf(t) == pc'[t] # pc[t]

\* C15: in text_handler_process a thread reads or writes text_buf and
\* text_cnt only while it holds text_mutex, at most one thread holds the
\* mutex at a time, and from the strcmp to the unlock no other thread
\* changes text_buf or text_cnt.
C15_DedupStateUnderLock ==
  [][/\ \A t \in Threads : Accessing(t) => text_mutex = t
     /\ \A t \in Threads : InCritical(t)' => text_mutex' = t
     /\ \A t, u \in Threads : InCritical(t)' /\ InCritical(u)' => t = u
     /\ \A t \in Threads : InCritical(t) /\ ~StepOf(t) =>
          text_buf' = text_buf /\ text_cnt' = text_cnt
     /\ (pc' # pc /\ (text_buf' # text_buf \/ text_cnt' # text_cnt)) =>
          \E t \in Threads : StepOf(t) /\ text_mutex = t]_vars

\* one thread is about to store its text while another waits for the mutex
C15_Witness ==
  \E t, u \in Threads :
    /\ pc[t] = "copy"
    /\ pc[u] = "lock"
    /\ text_mutex = t
    /\ text_cnt = 0
    /\ tnote = t

\* this step is the printf of thread t's message line, line 455
WritesLine(t) == pc[t] = "print" /\ StepOf(t)

\* this step is the printf of the repeat notice by thread t, line 447
WritesNotice(t) == pc[t] = "notice" /\ StepOf(t) /\ tnote' = t

\* C16: as stated: no thread writes to the console, a message line or the
\* repeat notice, while it holds text_mutex.
C16_NoWriteUnderLock ==
  [][\A t \in Threads : WritesLine(t) \/ WritesNotice(t) => text_mutex # t]_vars

\* C16, amended: text_mutex is held only between the lock and the unlock of
\* the comparison and update, a message line is never written by the holder
\* of text_mutex, and the repeat notice is written while the writer holds it.
C16_LineAfterUnlock ==
  [][/\ \A t \in Threads : text_mutex = t => InCritical(t)
     /\ \A t \in Threads : WritesLine(t) => text_mutex # t
     /\ \A t \in Threads : WritesNotice(t) => text_mutex = t]_vars

\* thread u has written the notice and still holds the mutex, thread t has
\* left the critical section and is about to write its line
C16_Witness ==
  \E t, u \in Threads :
    /\ t # u
    /\ pc[t] = "print"
    /\ ~tmsg[t].allow_dup
    /\ pc[u] = "reset"
    /\ text_mutex = u
    /\ tnote = u
    /\ top.kind = "repeat"

\* C20: whenever no thread is inside a dispatch, the admitted
\* duplicate-checked messages since the last text_handler_init that were
\* neither written as a line nor counted by a written notice are exactly
\* text_cnt: admitted = lines + sum of the notices' counts + text_cnt.
C20_Accounting == AllIdle => unprinted = text_cnt

\* no dispatch is in progress, one repeat is pending, and the line written
\* last is a duplicate-checked line of another text than the stored one
C20_Witness ==
  /\ AllIdle
  /\ initialized = 1
  /\ text_cnt = 1
  /\ unprinted = 1
  /\ top.kind = "msg"
  /\ top.text.ts = NoTs
  /\ top.text # text_buf

\* the line of the stored last text has been written
StoredLineWritten == owner = 0

\* the thread that stored the last text has released the mutex and is at
\* the printf of that text's line
StoredLinePending ==
  /\ owner # 0
  /\ pc[owner] = "print"
  /\ StrEq(tmsg[owner].text, text_buf)

\* C19: as stated: a repeat notice is written only after the line whose
\* repeats it counts was written, and the next message line written after a
\* notice is the line of the thread that wrote the notice.
C19_NoticeBetweenItsLines ==
  [][/\ \A t \in Threads : WritesNotice(t) => StoredLineWritten
     /\ \A u \in Threads : WritesLine(u) /\ tnote # 0 => u = tnote]_vars

\* C19, amended: a repeat notice counts at least one repeat of the stored
\* last text and is written under the mutex by a thread whose own text
\* differs from it; the line of the counted text has been written or its
\* thread is between the unlock and the printf; and as long as no message
\* line has followed the notice, the line of the notice's thread is still
\* to be written.
C19_NoticeAfterStore ==
  [][/\ \A t \in Threads : WritesNotice(t) =>
          /\ text_cnt > 0
          /\ top'.num = text_cnt
          /\ text_mutex = t
          /\ ~StrEq(tmsg[t].text, text_buf)
          /\ StoredLineWritten \/ StoredLinePending
     /\ \A t \in Threads : tnote' = t =>
          pc'[t] \in {"reset", "copy", "unlock", "print"}]_vars

\* the notice is the line written last while the line of the text it counts
\* is still to be written by another thread
C19_Witness ==
  \E t \in Threads :
    /\ tnote = t
    /\ top.kind = "repeat"
    /\ top.num = 1
    /\ StoredLinePending
    /\ owner # t

\* C17: under fair scheduling every call of text_handler_process returns:
\* each thread is outside the dispatch again and again (so a thread inside
\* it is eventually outside it), the mutex is free whenever no thread is
\* between lock and unlock, and a thread that returns does not hold it.
C17_DispatchReturns ==
  /\ \A t \in Threads : []<>(pc[t] = "idle")
  /\ []((\A t \in Threads : ~InCritical(t)) => text_mutex = 0)
  /\ [](\A t \in Threads : pc[t] \in {"idle", "print"} => text_mutex # t)

\* one thread waits for the mutex that another has just taken for a repeat
C17_Witness ==
  \E t, u \in Threads :
    /\ pc[t] = "lock"
    /\ pc[u] = "unlock_dup"
    /\ text_mutex = u
    /\ text_cnt = MaxRepeat
====
